---- MODULE Spec2Model ----
(***************************************************************************)
(* Model of the authorization-gated, audit-logged report pipeline of the   *)
(* erp-excel service: the permission graph (user_roles, role_operations),  *)
(* the access_logs table and its writers, the report window resolver and   *)
(* validator, and the four report service entry points.                    *)
(*                                                                         *)
(* Time.  An instant is a record [t, off]: t counts ticks since            *)
(* 0001-01-01T00:00 UTC (Go's zero time.Time) and off is the instant's     *)
(* Location: the offset in ticks of a fixed-offset zone, or SummerTimeZone *)
(* for a zone with daylight saving transitions.  One tick stands for the   *)
(* smallest time unit of the program (time.Nanosecond); a day has          *)
(* TicksPerDay ticks, so "24*time.Hour - time.Nanosecond" is               *)
(* TicksPerDay - Tick.                                                     *)
(***************************************************************************)
EXTENDS Integers, Sequences, FiniteSets, TLC

\* ------------------------------------------------------------------ time

TicksPerDay == 24
Tick == 1

ZeroTime == [t |-> 0, off |-> 0]

\* a *time.Time field of the request: nil pointer or a pointer to an instant
NilTime == [nil |-> TRUE, t |-> 0, off |-> 0]
Ptr(x) == [nil |-> FALSE, t |-> x.t, off |-> x.off]
Deref(p) == [t |-> p.t, off |-> p.off]

\* a *string field of the request that is nil
NilPeriod == "<nil>"

\* days since 0001-01-01 of the civil date y-m-d (proleptic Gregorian, 1 <= m <= 12)
DaysFromCivil(y, m, d) ==
    LET yy  == IF m <= 2 THEN y - 1 ELSE y
        era == yy \div 400
        yoe == yy - era * 400
        mp  == ((m + 9) % 12)
        doy == (153 * mp + 2) \div 5 + d - 1
        doe == yoe * 365 + yoe \div 4 - yoe \div 100 + doy
    IN  era * 146097 + doe - 306

\* civil date of a day number
CivilFromDays(z) ==
    LET zz  == z + 306
        era == zz \div 146097
        doe == zz - era * 146097
        yoe == (doe - doe \div 1460 + doe \div 36524 - doe \div 146096) \div 365
        doy == doe - (365 * yoe + yoe \div 4 - yoe \div 100)
        mp  == (5 * doy + 2) \div 153
        d   == doy - (153 * mp + 2) \div 5 + 1
        m   == IF mp < 10 THEN mp + 3 ELSE mp - 9
        y   == yoe + era * 400 + (IF m <= 2 THEN 1 ELSE 0)
    IN  [year |-> y, month |-> m, day |-> d]

\* a Location with daylight saving time (Europe/London in 2024): UTC,
\* and one hour ahead of it from 2024-03-31 01:00 UTC to 2024-10-27
\* 01:00 UTC
SummerTimeZone == 100
TicksPerHour == TicksPerDay \div 24
SummerStart == DaysFromCivil(2024, 3, 31) * TicksPerDay + TicksPerHour
SummerEnd == DaysFromCivil(2024, 10, 27) * TicksPerDay + TicksPerHour

\* Location.lookup: the offset in use at the absolute time t
OffsetAt(loc, t) ==
    IF loc = SummerTimeZone
    THEN (IF SummerStart <= t /\ t < SummerEnd THEN TicksPerHour ELSE 0)
    ELSE loc

\* wall-clock reading of an instant in its own Location
Wall(x) == x.t + OffsetAt(x.off, x.t)
Civil(x) == CivilFromDays(Wall(x) \div TicksPerDay)
Year(x) == Civil(x).year
Month(x) == Civil(x).month
Day(x) == Civil(x).day
TickOfDay(x) == Wall(x) % TicksPerDay

\* time.Date(y, m, d, 0h + tod, loc): month and day overflow are
\* normalised; the offset is looked up at the wall-clock reading taken as
\* an absolute time, and again at the result when that leaves the zone's
\* period
Date(y, m, d, tod, off) ==
    LET m0 == m - 1
        yn == y + m0 \div 12
        mn == (m0 % 12) + 1
        dn == DaysFromCivil(yn, mn, 1) + d - 1
        unix == dn * TicksPerDay + tod
        guess == OffsetAt(off, unix)
        offset == IF guess = 0 THEN 0 ELSE OffsetAt(off, unix - guess)
    IN  [t |-> unix - offset, off |-> off]

\* Time.AddDate(years, months, days)
AddDate(x, years, months, days) ==
    LET c == Civil(x)
    IN  Date(c.year + years, c.month + months, c.day + days, TickOfDay(x), x.off)

\* Time.Truncate(24 * time.Hour): rounds down to a multiple of the duration
\* since the zero time, i.e. on the absolute (UTC) time line
Truncate(x) == [t |-> x.t - (x.t % TicksPerDay), off |-> x.off]

\* Time.Add(d)
Add(x, d) == [t |-> x.t + d, off |-> x.off]
After(x, y) == x.t > y.t
Before(x, y) == x.t < y.t
IsZero(x) == x.t = 0

\* ------------------------------------------------------- report window

ErrNone == ""
ErrInvalidPeriod == "invalid period specified"
ErrInvalidDate == "invalid FromDate or ToDate (year < 1900)"
ErrMissingDateRange == "fromDate and toDate are required if period is not specified"
ErrInverted == "from date must be before or equal to to date"
ErrFuture == "to date cannot be in the future"
ErrTooWide == "date range cannot exceed maxMonths months from current date"
\* runtime panic: nil pointer dereference (method call through a nil *time.Time)
ErrNilDeref == "panic: nil pointer dereference"

MinYear == 1900

Resolved(from, to) == [err |-> ErrNone, from |-> from, to |-> to]
ResolveError(e) == [err |-> e, from |-> ZeroTime, to |-> ZeroTime]

\* now.Truncate(24h).Add(24h - 1ns)
EndOfDay(now) == Add(Truncate(now), TicksPerDay - Tick)

\* the explicit branch of resolveDateRange, FromDate and ToDate non-nil
ExplicitWindow(request) ==
    IF Year(Deref(request.FromDate)) < MinYear \/ Year(Deref(request.ToDate)) < MinYear
    THEN ResolveError(ErrInvalidDate)
    ELSE Resolved(Truncate(Deref(request.FromDate)),
                  Add(Truncate(Deref(request.ToDate)), TicksPerDay - Tick))

\* a variant whose lastmonth start is rounded the way the 3months start is
PeriodWindowLastMonthTruncated(period, now) ==
    LET currentEndOfDay == EndOfDay(now)
        firstOfThisMonth == Date(Year(now), Month(now), 1, 0, now.off)
        lastTo == Add(firstOfThisMonth, 0 - Tick)
    IN  CASE period = "7days" ->
                Resolved(Truncate(AddDate(currentEndOfDay, 0, 0, -6)), currentEndOfDay)
          [] period = "30days" ->
                Resolved(Truncate(AddDate(currentEndOfDay, 0, 0, -29)), currentEndOfDay)
          [] period = "3months" ->
                Resolved(Truncate(AddDate(firstOfThisMonth, 0, -2, 0)), currentEndOfDay)
          [] period = "currentmonth" ->
                Resolved(firstOfThisMonth, currentEndOfDay)
          [] period = "lastmonth" ->
                Resolved(Truncate(Date(Year(lastTo), Month(lastTo), 1, 0, now.off)), lastTo)
          [] OTHER -> ResolveError(ErrInvalidPeriod)

\* a variant whose lastmonth start is taken from the clock instead of from
\* the end of the previous month
PeriodWindowLastMonthFromNow(period, now) ==
    LET currentEndOfDay == EndOfDay(now)
        firstOfThisMonth == Date(Year(now), Month(now), 1, 0, now.off)
        lastTo == Add(firstOfThisMonth, 0 - Tick)
    IN  CASE period = "7days" ->
                Resolved(Truncate(AddDate(currentEndOfDay, 0, 0, -6)), currentEndOfDay)
          [] period = "30days" ->
                Resolved(Truncate(AddDate(currentEndOfDay, 0, 0, -29)), currentEndOfDay)
          [] period = "3months" ->
                Resolved(Truncate(AddDate(firstOfThisMonth, 0, -2, 0)), currentEndOfDay)
          [] period = "currentmonth" ->
                Resolved(firstOfThisMonth, currentEndOfDay)
          [] period = "lastmonth" ->
                Resolved(Date(Year(now), Month(now), 1, 0, now.off), lastTo)
          [] OTHER -> ResolveError(ErrInvalidPeriod)

\* the period branch of resolveDateRange
PeriodWindow(period, now) ==
    LET currentEndOfDay == EndOfDay(now)
        firstOfThisMonth == Date(Year(now), Month(now), 1, 0, now.off)
        lastTo == Add(firstOfThisMonth, 0 - Tick)
    IN  CASE period = "7days" ->
                Resolved(Truncate(AddDate(currentEndOfDay, 0, 0, -6)), currentEndOfDay)
          [] period = "30days" ->
                Resolved(Truncate(AddDate(currentEndOfDay, 0, 0, -29)), currentEndOfDay)
          [] period = "3months" ->
                Resolved(Truncate(AddDate(firstOfThisMonth, 0, -2, 0)), currentEndOfDay)
          [] period = "currentmonth" ->
                Resolved(firstOfThisMonth, currentEndOfDay)
          [] period = "lastmonth" ->
                Resolved(Date(Year(lastTo), Month(lastTo), 1, 0, now.off), lastTo)
          [] OTHER -> ResolveError(ErrInvalidPeriod)

\* a variant in which a complete explicit pair wins over the period
resolveDateRangeDatesFirst(request, now) ==
    IF ~request.FromDate.nil /\ ~request.ToDate.nil
       /\ ~IsZero(Deref(request.FromDate)) /\ ~IsZero(Deref(request.ToDate))
    THEN ExplicitWindow(request)
    ELSE IF request.Period # NilPeriod /\ request.Period # ""
    THEN PeriodWindow(request.Period, now)
    ELSE ResolveError(ErrMissingDateRange)

\* reportService.resolveDateRange / assistant610Service.resolveDateRange
\* (the two bodies are textually the same); now is the value of time.Now()
resolveDateRange(request, now) ==
    IF request.Period # NilPeriod /\ request.Period # ""
    THEN PeriodWindow(request.Period, now)
    ELSE IF request.FromDate.nil
         THEN ResolveError(ErrNilDeref)
         ELSE IF IsZero(Deref(request.FromDate))
              THEN ResolveError(ErrMissingDateRange)
              ELSE IF request.ToDate.nil
                   THEN ResolveError(ErrNilDeref)
                   ELSE IF IsZero(Deref(request.ToDate))
                        THEN ResolveError(ErrMissingDateRange)
                        ELSE ExplicitWindow(request)

\* a variant that also rejects a window ending exactly at today's end
validateDateRangeFutureInclusive(fromDate, toDate, now, maxMonths) ==
    LET nowEndOfDay == EndOfDay(now)
        oldestAllowed == AddDate(Truncate(now), 0, 0 - maxMonths, 0)
    IN  IF After(fromDate, toDate) THEN ErrInverted
        ELSE IF ~Before(toDate, nowEndOfDay) THEN ErrFuture
        ELSE IF Before(Truncate(fromDate), oldestAllowed) THEN ErrTooWide
        ELSE ErrNone

\* reportService.validateDateRange; now is the value of time.Now()
validateDateRange(fromDate, toDate, now, maxMonths) ==
    LET nowEndOfDay == EndOfDay(now)
        oldestAllowed == AddDate(Truncate(now), 0, 0 - maxMonths, 0)
    IN  IF After(fromDate, toDate) THEN ErrInverted
        ELSE IF After(toDate, nowEndOfDay) THEN ErrFuture
        ELSE IF Before(Truncate(fromDate), oldestAllowed) THEN ErrTooWide
        ELSE ErrNone

\* assistant610Service.validate610DateRange
validate610DateRange(fromDate, toDate, now, maxMonths) ==
    LET nowEndOfDay == EndOfDay(now)
        oldestAllowed == AddDate(Truncate(now), 0, 0 - maxMonths, 0)
    IN  IF After(fromDate, toDate) THEN ErrInverted
        ELSE IF After(toDate, nowEndOfDay) THEN ErrFuture
        ELSE IF Before(fromDate, oldestAllowed) THEN ErrTooWide
        ELSE ErrNone

\* ------------------------------------------------------------ bounds

NumUsers == 1
NumRoles == 2
MaxIds == 2
MaxRequests == 1
MaxLogs == 1
MaxRows == 1
MaxElapse == 1

Users == 1..NumUsers
Roles == 1..NumRoles

\* the operations table (id, code); the report services use the ids 1
\* (view) and 2 (export) literally
ViewOperationID == 1
ExportOperationID == 2
Operations == {[id |-> ViewOperationID, code |-> "report_view"],
               [id |-> ExportOperationID, code |-> "report_export"]}
OperationIds == {o.id : o \in Operations}
OperationCodes == {o.code : o \in Operations} \cup {"no_such_operation"}

\* config.Excel.MaxSearchMonths (default)
MaxSearchMonths == 6

\* lists of ids, as carried by the request bodies (repeats allowed)
IdLists(S) == UNION {[1..n -> S] : n \in 0..MaxIds}
Count(list, x) == Cardinality({i \in DOMAIN list : list[i] = x})
Elems(list) == {list[i] : i \in DOMAIN list}

VARIABLES
    now,             \* the server clock (time.Now(), in the server's Location)
    userRoles,       \* table user_roles: <<user_id, role_id>> -> number of rows
    roleOperations,  \* table role_operations: <<role_id, operation_id, can_access>> -> number of rows
    roles,           \* table roles: the ids present
    accessLogs,      \* table access_logs: row id -> row
    requests,        \* the report requests received, with their progress
    lastCheck,       \* the last answer of CheckUserAccess
    probe,           \* input and output of a direct call of the window resolver
    workbook,        \* input and output of a direct call of the Excel exporter
    call             \* input and output of one request to a stateless handler or middleware

vars == <<now, userRoles, roleOperations, roles, accessLogs, requests, lastCheck, probe,
          workbook, call>>

\* --------------------------------------------------- permission graph

GrantKeys == Roles \X OperationIds \X BOOLEAN
UserRoleKeys == Users \X Roles

NoCheck == [userID |-> 0, code |-> "", hasAccess |-> FALSE, err |-> ""]
NoProbe == [request |-> [Period |-> NilPeriod, FromDate |-> NilTime, ToDate |-> NilTime],
            called |-> FALSE, out |-> ResolveError(ErrNone)]

\* operationRepository.FindByCode: the row with that code, or no row
FindByCode(code) == {o \in Operations : o.code = code}

\* roleRepository.CheckUserOperationAccess: COUNT(*) of the join of
\* user_roles and role_operations on role_id, filtered by user, operation
\* and can_access = 1; the answer is count > 0
JoinCount(ur, ro, userID, operationID) ==
    LET rowsOf[r \in 0..NumRoles] ==
            IF r = 0 THEN 0
            ELSE rowsOf[r - 1] + ur[<<userID, r>>] * ro[<<r, operationID, TRUE>>]
    IN  rowsOf[NumRoles]

\* a variant of the query without the can_access filter
CheckUserOperationAccessAnyFlag(ur, ro, userID, operationID) ==
    \E r \in Roles : ur[<<userID, r>>] > 0
                     /\ ro[<<r, operationID, TRUE>>] + ro[<<r, operationID, FALSE>>] > 0

CheckUserOperationAccess(ur, ro, userID, operationID) ==
    JoinCount(ur, ro, userID, operationID) > 0

\* operationService.CheckUserAccess, without data-source failures
CheckUserAccessIn(ur, ro, userID, code) ==
    LET found == FindByCode(code)
    IN  IF found = {}
        THEN [hasAccess |-> FALSE, err |-> "error finding operation"]
        ELSE [hasAccess |-> CheckUserOperationAccess(ur, ro, userID,
                                                     (CHOOSE o \in found : TRUE).id),
              err |-> ""]

PermUnchanged == UNCHANGED <<now, accessLogs, requests, probe, workbook, call>>

\* operationService.CheckUserAccess (GET /operations/access/:userID/:operationCode
\* and RoleCheckMiddleware); dbOK = FALSE is a failing query
CheckUserAccessResult(userID, code, dbOK) ==
    IF dbOK
    THEN [userID |-> userID, code |-> code] @@
         CheckUserAccessIn(userRoles, roleOperations, userID, code)
    ELSE [userID |-> userID, code |-> code, hasAccess |-> FALSE,
          err |-> "error checking operation access"]

CheckUserAccess(userID, code, dbOK) ==
    /\ lastCheck' = CheckUserAccessResult(userID, code, dbOK)
    /\ UNCHANGED <<userRoles, roleOperations, roles>>
    /\ PermUnchanged

\* userRepository.AssignRoles: one transaction, delete the user's rows and
\* insert one row per list element; any failure rolls everything back
AssignRoles(userID, roleIDs, dbOK) ==
    /\ userRoles' = IF dbOK
                    THEN [k \in UserRoleKeys |->
                            IF k[1] = userID THEN Count(roleIDs, k[2]) ELSE userRoles[k]]
                    ELSE userRoles
    /\ UNCHANGED <<roleOperations, roles, lastCheck>>
    /\ PermUnchanged

\* userRepository.RemoveRoles: one DELETE ... IN (list); an empty list is
\* a syntax error of the statement
RemoveRoles(userID, roleIDs, dbOK) ==
    /\ userRoles' = IF dbOK /\ Len(roleIDs) > 0
                    THEN [k \in UserRoleKeys |->
                            IF k[1] = userID /\ k[2] \in Elems(roleIDs)
                            THEN 0 ELSE userRoles[k]]
                    ELSE userRoles
    /\ UNCHANGED <<roleOperations, roles, lastCheck>>
    /\ PermUnchanged

\* a variant that inserts the new rows without deleting the role's rows
AssignOperationsExtending(roleID, operationIDs, dbOK) ==
    /\ roleOperations' =
          IF dbOK
          THEN [k \in GrantKeys |->
                  IF k[1] = roleID /\ k[3]
                  THEN roleOperations[k] + Count(operationIDs, k[2])
                  ELSE roleOperations[k]]
          ELSE roleOperations
    /\ UNCHANGED <<userRoles, roles, lastCheck>>
    /\ PermUnchanged

\* roleRepository.AssignOperations: one transaction, delete the role's
\* rows and insert one row with can_access = 1 per list element
AssignOperations(roleID, operationIDs, dbOK) ==
    /\ roleOperations' =
          IF dbOK
          THEN [k \in GrantKeys |->
                  IF k[1] = roleID
                  THEN (IF k[3] THEN Count(operationIDs, k[2]) ELSE 0)
                  ELSE roleOperations[k]]
          ELSE roleOperations
    /\ UNCHANGED <<userRoles, roles, lastCheck>>
    /\ PermUnchanged

\* roleRepository.RemoveOperations: one DELETE ... IN (list)
RemoveOperations(roleID, operationIDs, dbOK) ==
    /\ roleOperations' =
          IF dbOK /\ Len(operationIDs) > 0
          THEN [k \in GrantKeys |->
                  IF k[1] = roleID /\ k[2] \in Elems(operationIDs)
                  THEN 0 ELSE roleOperations[k]]
          ELSE roleOperations
    /\ UNCHANGED <<userRoles, roles, lastCheck>>
    /\ PermUnchanged

\* roleRepository.Delete: one transaction removing the role's
\* role_operations rows, its user_roles rows and the roles row
Delete(roleID, dbOK) ==
    /\ IF dbOK
       THEN /\ roleOperations' = [k \in GrantKeys |->
                                    IF k[1] = roleID THEN 0 ELSE roleOperations[k]]
            /\ userRoles' = [k \in UserRoleKeys |->
                                    IF k[2] = roleID THEN 0 ELSE userRoles[k]]
            /\ roles' = roles \ {roleID}
       ELSE UNCHANGED <<roleOperations, userRoles, roles>>
    /\ UNCHANGED lastCheck
    /\ PermUnchanged

\* ------------------------------------------------------- access_logs

StatusPending == "pending"
StatusSuccess == "success"
StatusError == "error"
StatusValues == {StatusPending, StatusSuccess, StatusError}

\* the status column accepts the three enumerated values only
SinkAccepts(status) == status \in StatusValues

\* operationRepository.LogAccess: INSERT ... OUTPUT INSERTED.id; the new
\* id on success, no row and id 0 on failure (the insert into a table
\* that already holds MaxLogs rows is taken to fail)
InsertLog(logs, row, dbOK) ==
    IF dbOK /\ SinkAccepts(row.status) /\ Len(logs) < MaxLogs
    THEN [logs |-> Append(logs, row), id |-> Len(logs) + 1]
    ELSE [logs |-> logs, id |-> 0]

\* operationRepository.UpdateLogStatus: UPDATE ... SET status WHERE id;
\* updated is rowsAffected > 0
UpdateLogRow(logs, logID, status, dbOK) ==
    IF dbOK /\ SinkAccepts(status)
    THEN IF logID \in DOMAIN logs
         THEN [logs |-> [logs EXCEPT ![logID].status = status],
               updated |-> TRUE, err |-> ""]
         ELSE [logs |-> logs, updated |-> FALSE, err |-> ""]
    ELSE [logs |-> logs, updated |-> FALSE, err |-> "error updating log status"]

\* ---------------------------------------------------- report services

Kinds == {"view230", "export230", "view610", "export610"}
IsExport(kind) == kind \in {"export230", "export610"}
Is610(kind) == kind \in {"view610", "export610"}
\* AccessLog.OperationID written by the entry point
OperationIDOf(kind) == IF IsExport(kind) THEN ExportOperationID ELSE ViewOperationID

ErrQueryView == "error querying inventory data"
ErrQueryExport == "error getting inventory data for export"
ErrNoData == "no data found to export for the specified date range"
ErrRender == "error exporting to Excel"

\* what an entry point returns: rows (view), an artifact (export) or an error
NoResult == [kind |-> "none", err |-> "", cause |-> "", rows |-> 0]
RowsResult(n) == [kind |-> "rows", err |-> "", cause |-> "", rows |-> n]
ArtifactResult(n) == [kind |-> "artifact", err |-> "", cause |-> "", rows |-> n]
ErrorResult(e, cause) == [kind |-> "error", err |-> e, cause |-> cause, rows |-> 0]
PanicResult == [kind |-> "panic", err |-> ErrNilDeref, cause |-> "", rows |-> 0]

\* outcome of the report data source: DsFail or a number of rows
DsFail == -1
DsOutcomes == {DsFail} \cup (0..MaxRows)
\* the outcome when ctx is cancelled while the query is in flight:
\* QueryContext returns the error of the context
DsCancelled == -2
DsError(outcome) == outcome \in {DsFail, DsCancelled}

NewRequestRecord(kind, userID, request) ==
    [kind |-> kind, userID |-> userID, request |-> request, pc |-> "resolve",
     from |-> ZeroTime, to |-> ZeroTime, now |-> ZeroTime,
     rejected |-> ErrNone,
     logID |-> 0, ds |-> 0, renderOK |-> TRUE, status |-> "",
     nBegin |-> 0, nQuery |-> 0, nRender |-> 0, nFinish |-> 0,
     result |-> NoResult]

PipelineUnchanged == UNCHANGED <<userRoles, roleOperations, roles, lastCheck, probe, workbook,
                                 call>>

\* POST /reports/inventory, POST /reports/inventory/export (and the 610
\* variants): the handler hands the caller's id and the parsed body to the
\* service entry point
NewRequest(kind, userID, request) ==
    /\ Len(requests) < MaxRequests
    /\ requests' = Append(requests, NewRequestRecord(kind, userID, request))
    /\ UNCHANGED <<now, accessLogs>>
    /\ PipelineUnchanged

\* entry point, after resolveDateRange returned r at clock reading t:
\* an error is returned at once; a nil dereference unwinds the call
AfterResolve(q, r, t) ==
    IF r.err = ErrNilDeref
    THEN [q EXCEPT !.pc = "done", !.rejected = r.err, !.now = t, !.result = PanicResult]
    ELSE IF r.err # ErrNone
    THEN [q EXCEPT !.pc = "done", !.rejected = r.err, !.now = t,
                   !.result = ErrorResult(r.err, "")]
    ELSE [q EXCEPT !.pc = "validate", !.from = r.from, !.to = r.to, !.now = t]

\* the call of resolveDateRange at the top of the four entry points
Resolve(i) ==
    /\ requests[i].pc = "resolve"
    /\ requests' = [requests EXCEPT ![i] =
                       AfterResolve(@, resolveDateRange(@.request, now), now)]
    /\ UNCHANGED <<now, accessLogs>>
    /\ PipelineUnchanged

\* a variant that records the attempt before it reports the rejection
AfterValidateLogged(q, e) ==
    IF e # ErrNone
    THEN [q EXCEPT !.pc = "logAccess", !.rejected = e, !.result = ErrorResult(e, "")]
    ELSE [q EXCEPT !.pc = "logAccess"]

\* entry point, after the validator returned e
AfterValidate(q, e) ==
    IF e # ErrNone
    THEN [q EXCEPT !.pc = "done", !.rejected = e, !.result = ErrorResult(e, "")]
    ELSE [q EXCEPT !.pc = "logAccess"]

\* the call of validateDateRange (230) or validate610DateRange (610);
\* elapsed is the time gone by since resolveDateRange read the clock
Validate(i, elapsed) ==
    /\ requests[i].pc = "validate"
    /\ LET q == requests[i]
           later == Add(q.now, elapsed)
           e == IF Is610(q.kind)
                THEN validate610DateRange(q.from, q.to, later, MaxSearchMonths)
                ELSE validateDateRange(q.from, q.to, later, MaxSearchMonths)
       IN  requests' = [requests EXCEPT ![i] = AfterValidate(q, e)]
    /\ UNCHANGED <<now, accessLogs>>
    /\ PipelineUnchanged

\* a variant that gives up when the audit insert fails
AfterLogAccessFailFast(q, id) ==
    IF id <= 0
    THEN [q EXCEPT !.pc = "done", !.logID = id, !.nBegin = @ + 1,
                   !.result = ErrorResult("error logging access", "audit")]
    ELSE [q EXCEPT !.pc = "query", !.logID = id, !.nBegin = @ + 1]

\* entry point, after LogAccess returned id (0 with an error): the error
\* is only printed
AfterLogAccess(q, id) ==
    [q EXCEPT !.pc = "query", !.logID = id, !.nBegin = @ + 1]

\* s.operationRepo.LogAccess(ctx, accessLog) in the entry points
LogAccess(i, dbOK) ==
    /\ requests[i].pc = "logAccess"
    /\ LET q == requests[i]
           ins == InsertLog(accessLogs,
                            [user_id |-> q.userID,
                             operation_id |-> OperationIDOf(q.kind),
                             status |-> StatusPending],
                            dbOK)
       IN  /\ accessLogs' = ins.logs
           /\ requests' = [requests EXCEPT ![i] = AfterLogAccess(q, ins.id)]
    /\ UNCHANGED now
    /\ PipelineUnchanged

\* the branch taken when the data source fails
QueryFailed(q) ==
    [q EXCEPT !.pc = "updateLog", !.status = StatusError,
              !.result = ErrorResult(IF IsExport(q.kind) THEN ErrQueryExport
                                                         ELSE ErrQueryView,
                                     "data source")]

\* the branch taken when the data source returns no rows
QueryEmpty(q) ==
    [q EXCEPT !.pc = "updateLog", !.status = StatusSuccess,
              !.result = IF IsExport(q.kind) THEN ErrorResult(ErrNoData, "")
                                             ELSE RowsResult(0)]

\* the branch taken when the data source returns rows
QueryRows(q, n) ==
    IF IsExport(q.kind)
    THEN [q EXCEPT !.pc = "render"]
    ELSE [q EXCEPT !.pc = "updateLog", !.status = StatusSuccess,
                   !.result = RowsResult(n)]

\* a variant that returns the data-source failure without closing the log
AfterQueryUnfinished(q, outcome) ==
    LET base == [q EXCEPT !.ds = outcome, !.nQuery = @ + 1]
    IN  IF DsError(outcome) THEN [QueryFailed(base) EXCEPT !.pc = "done"]
        ELSE IF outcome = 0 THEN QueryEmpty(base)
        ELSE QueryRows(base, outcome)

\* a variant that asks the data source again after a failure
AfterQueryRetry(q, outcome) ==
    LET base == [q EXCEPT !.ds = outcome, !.nQuery = @ + 1]
    IN  IF DsError(outcome)
        THEN (IF q.nQuery = 0 THEN base ELSE QueryFailed(base))
        ELSE IF outcome = 0 THEN QueryEmpty(base)
        ELSE QueryRows(base, outcome)

\* a variant that hands an empty result to the exporter
AfterQueryRenderEmpty(q, outcome) ==
    LET base == [q EXCEPT !.ds = outcome, !.nQuery = @ + 1]
    IN  IF DsError(outcome) THEN QueryFailed(base)
        ELSE QueryRows(base, outcome)

\* entry point, after the data source returned outcome
AfterQuery(q, outcome) ==
    LET base == [q EXCEPT !.ds = outcome, !.nQuery = @ + 1]
    IN  IF DsError(outcome) THEN QueryFailed(base)
        ELSE IF outcome = 0 THEN QueryEmpty(base)
        ELSE QueryRows(base, outcome)

\* the call of the report data source and the branches on its outcome
Query(i, outcome) ==
    /\ requests[i].pc = "query"
    /\ requests' = [requests EXCEPT ![i] = AfterQuery(@, outcome)]
    /\ UNCHANGED <<now, accessLogs>>
    /\ PipelineUnchanged

\* a variant that closes the log as success whatever the exporter returned
AfterRenderAlwaysSuccess(q, ok) ==
    IF ok
    THEN [q EXCEPT !.pc = "updateLog", !.nRender = @ + 1, !.renderOK = TRUE,
                   !.status = StatusSuccess, !.result = ArtifactResult(q.ds)]
    ELSE [q EXCEPT !.pc = "updateLog", !.nRender = @ + 1, !.renderOK = FALSE,
                   !.status = StatusSuccess,
                   !.result = ErrorResult(ErrRender, "render")]

\* export entry point, after ExportToExcel returned
AfterRender(q, ok) ==
    IF ok
    THEN [q EXCEPT !.pc = "updateLog", !.nRender = @ + 1, !.renderOK = TRUE,
                   !.status = StatusSuccess, !.result = ArtifactResult(q.ds)]
    ELSE [q EXCEPT !.pc = "updateLog", !.nRender = @ + 1, !.renderOK = FALSE,
                   !.status = StatusError,
                   !.result = ErrorResult(ErrRender, "render")]

\* utils.ExportToExcel(data, headers, title) in the export entry points
Render(i, ok) ==
    /\ requests[i].pc = "render"
    /\ requests' = [requests EXCEPT ![i] = AfterRender(@, ok)]
    /\ UNCHANGED <<now, accessLogs>>
    /\ PipelineUnchanged

\* a variant that closes the newest record, whatever LogAccess returned
UpdateLogNewestRecord(i, dbOK) ==
    /\ requests[i].pc = "updateLog"
    /\ LET q == requests[i]
           upd == UpdateLogRow(accessLogs, Len(accessLogs), q.status, dbOK)
       IN  /\ accessLogs' = upd.logs
           /\ requests' = [requests EXCEPT ![i] =
                             [@ EXCEPT !.pc = "done", !.nFinish = @ + 1]]
    /\ UNCHANGED now
    /\ PipelineUnchanged

\* reportService.updateLogStatus / assistant610Service.updateLogStatus,
\* followed by the return of the entry point
UpdateLog(i, dbOK) ==
    /\ requests[i].pc = "updateLog"
    /\ LET q == requests[i]
           \* the update runs under the ctx of the query: ExecContext
           \* returns the error of a cancelled ctx without reaching the table
           upd == UpdateLogRow(accessLogs, q.logID, q.status,
                               dbOK /\ q.ds # DsCancelled)
       IN  IF q.logID <= 0
           THEN /\ accessLogs' = accessLogs
                /\ requests' = [requests EXCEPT ![i] = [@ EXCEPT !.pc = "done"]]
           ELSE /\ accessLogs' = upd.logs
                /\ requests' = [requests EXCEPT ![i] =
                                  [@ EXCEPT !.pc = "done", !.nFinish = @ + 1]]
    /\ UNCHANGED now
    /\ PipelineUnchanged

\* OperationHandler.LogAccess -> operationService.LogAccess
\* (POST /operations/log)
HandlerLogAccess(userID, code, dbOK) ==
    /\ userID > 0 /\ code # ""
    /\ LET found == FindByCode(code)
       IN  accessLogs' =
             IF found = {} THEN accessLogs
             ELSE InsertLog(accessLogs,
                            [user_id |-> userID,
                             operation_id |-> (CHOOSE o \in found : TRUE).id,
                             status |-> StatusPending],
                            dbOK).logs
    /\ UNCHANGED <<now, requests>>
    /\ PipelineUnchanged

\* OperationHandler.UpdateLogStatus -> operationService.UpdateLogStatus
\* (PUT /operations/log/:logID/status)
HandlerUpdateLogStatus(logID, status, dbOK) ==
    /\ accessLogs' = IF status = "" \/ logID <= 0
                     THEN accessLogs
                     ELSE UpdateLogRow(accessLogs, logID, status, dbOK).logs
    /\ UNCHANGED <<now, requests>>
    /\ PipelineUnchanged

\* ------------------------------------------------------ Excel export

MaxColumns == 27
MaxExportRows == 2

\* field names are numbered; the label of a translated field is its number
\* lifted by LabelBase, a cell without content reads EmptyCell
LabelBase == 1000
EmptyCell == 0
\* the entries of the localization map: the odd-numbered fields
enToVnTranslate == [f \in {g \in 1..(MaxColumns + 2) : g % 2 = 1} |-> LabelBase + f]

\* translate.TranslateKey
TranslateKey(key) ==
    IF key \in DOMAIN enToVnTranslate THEN enToVnTranslate[key] ELSE key

RuneA == 65
HeaderRow == 3
FirstDataRow == 4

\* the column a one-letter column name denotes for the workbook library:
\* 'A'..'Z' (and 'a'..'z') are columns 1..26, any other character is not
\* a column name
ColumnOfRune(r) ==
    IF r \in 65..90 THEN r - 64
    ELSE IF r \in 97..122 THEN r - 96
    ELSE 0

\* f.SetCellValue(sheet, fmt.Sprintf("%c%d", r, row), value): an invalid
\* cell name is an error, which ExportToExcel drops, and no cell is written
SetCellValue(sheet, r, row, value) ==
    IF ColumnOfRune(r) = 0 THEN sheet
    ELSE (<<ColumnOfRune(r), row>> :> value) @@ sheet

\* item[header]: nil for a field the row does not have, written as an
\* empty cell
ItemValue(item, header) == IF header \in DOMAIN item THEN item[header] ELSE EmptyCell

\* one pass "for j, header := range headers" of SetCellValue calls on
\* sheet row row, values[j + 1] going to the cell named by rune 'A' + j:
\* cells with an invalid name are skipped, and of two writes to one cell
\* the later one stays
WriteRow(sheet, row, values) ==
    LET colOf(j) == ColumnOfRune(RuneA + (j - 1))
        written == {j \in DOMAIN values : colOf(j) # 0}
        cells == {<<colOf(j), row>> : j \in written}
        lastOf(c) == CHOOSE j \in written :
                        /\ colOf(j) = c[1]
                        /\ \A k \in written : colOf(k) = c[1] => k <= j
    IN  [c \in cells \cup DOMAIN sheet |->
            IF c \in cells THEN values[lastOf(c)] ELSE sheet[c]]

\* the loop "for i, item := range data", from item i on
RECURSIVE WriteData(_, _, _, _)
WriteData(sheet, data, headers, i) ==
    IF i > Len(data) THEN sheet
    ELSE WriteData(WriteRow(sheet, (i - 1) + FirstDataRow,
                            [j \in DOMAIN headers |-> ItemValue(data[i], headers[j])]),
                   data, headers, i + 1)

\* utils.ExportToExcel: the title in A1, the translated headers in row 3,
\* the rows from row 4 on, one column per header in header order
ExportToExcel(data, headers, title) ==
    LET titled == SetCellValue(<< >>, RuneA, 1, title)
        withHeaders == WriteRow(titled, HeaderRow,
                                [j \in DOMAIN headers |-> TranslateKey(headers[j])])
    IN  [sheet |-> WriteData(withHeaders, data, headers, 1), err |-> ""]

NoWorkbook == [called |-> FALSE, data |-> << >>, headers |-> << >>,
               sheet |-> << >>, err |-> ""]

\* excelize GetCellValue on the written sheet
CellAt(sheet, col, row) ==
    IF <<col, row>> \in DOMAIN sheet THEN sheet[<<col, row>>] ELSE EmptyCell

\* ---------------------------------------------------- HTTP responses

StatusOK == 200
StatusNotFound == 404
StatusInternalServerError == 500

\* formatPeriod / format610Period: the display label of a period symbol
\* (the labels are Vietnamese; written here without diacritics), the
\* symbol itself when it is not one of the five
formatPeriod(period) ==
    CASE period = "7days" -> "7 ngay gan nhat"
      [] period = "30days" -> "30 ngay gan nhat"
      [] period = "3months" -> "3 thang gan nhat"
      [] period = "currentmonth" -> "Thang hien tai"
      [] period = "lastmonth" -> "Thang truoc"
      [] OTHER -> period

\* Time.Format("02/01/2006"): day, month and year in the instant's Location
FormatDate(x) == <<Day(x), Month(x), Year(x)>>

PlainTitle == [form |-> "plain", label |-> "", from |-> << >>, to |-> << >>]
PeriodTitle(label) == [form |-> "period", label |-> label, from |-> << >>, to |-> << >>]
DatesTitle(from, to) == [form |-> "dates", label |-> "", from |-> from, to |-> to]

\* the report title of the view handlers, from the request body
ViewTitle(request) ==
    IF request.Period # NilPeriod /\ request.Period # ""
    THEN PeriodTitle(formatPeriod(request.Period))
    ELSE IF ~request.FromDate.nil /\ ~IsZero(Deref(request.FromDate))
            /\ ~request.ToDate.nil /\ ~IsZero(Deref(request.ToDate))
    THEN DatesTitle(FormatDate(Deref(request.FromDate)), FormatDate(Deref(request.ToDate)))
    ELSE PlainTitle

\* the title the export entry points give the workbook, from the resolved
\* window
ExportTitle(resolvedFromDate, resolvedToDate) ==
    DatesTitle(FormatDate(resolvedFromDate), FormatDate(resolvedToDate))

\* the title a finished request carries to the client
TitleOf(q) ==
    IF IsExport(q.kind) THEN ExportTitle(q.from, q.to) ELSE ViewTitle(q.request)

\* err.Error() of what an entry point returned: its message and, behind
\* the %w of fmt.Errorf, the text of the error it wraps
ErrorText(result) == <<result.err, result.cause>>
NoErrorText == <<"", "">>

\* the response of the view and export handlers to what the entry point
\* returned: 404 for the no-data error, 500 with the error text for every
\* other error, 200 otherwise; a panic is caught by the recover middleware
\* and answered by errorHandler
HandlerResponse(q) ==
    CASE q.result.kind = "panic" ->
            [status |-> StatusInternalServerError, reason |-> q.result.err,
             message |-> "Internal Server Error", error |-> ErrorText(q.result)]
      [] q.result.kind = "error" /\ q.result.err = ErrNoData ->
            [status |-> StatusNotFound, reason |-> "No Data Found",
             message |-> "No Data Found", error |-> NoErrorText]
      [] q.result.kind = "error" ->
            [status |-> StatusInternalServerError, reason |-> q.result.err,
             message |-> IF IsExport(q.kind) THEN "Error exporting report"
                                             ELSE "Error retrieving report data",
             error |-> ErrorText(q.result)]
      [] OTHER -> [status |-> StatusOK, reason |-> "", message |-> "",
                   error |-> NoErrorText]

\* ------------------------------------------------------ file download

StatusBadRequest == 400

\* a request to a stateless handler or middleware, before it is served
NoCall == [op |-> "", input |-> << >>, called |-> FALSE, out |-> << >>]

\* a file name or path is a sequence of tokens: the separator and names
\* (a name is what stands between two separators)
Separator == "/"

\* filepath.Base: "." for the empty path; trailing separators are
\* stripped; what follows the last separator is returned, the separator
\* itself when nothing is left
Base(path) ==
    IF path = << >> THEN <<".">>
    ELSE LET kept == {i \in DOMAIN path : path[i] # Separator}
             last == IF kept = {} THEN 0 ELSE CHOOSE i \in kept : \A k \in kept : k <= i
             seps == {i \in 1..last : path[i] = Separator}
             start == IF seps = {} THEN 0 ELSE CHOOSE i \in seps : \A k \in seps : k <= i
         IN  IF last = 0 THEN <<Separator>> ELSE SubSeq(path, start + 1, last)

\* the names of a path, in order ("" where two separators meet or the
\* path ends in one)
RECURSIVE SplitPath(_)
SplitPath(path) ==
    IF path = << >> THEN << >>
    ELSE IF Head(path) = Separator
         THEN (IF Len(path) = 1 \/ path[2] = Separator THEN <<"">> ELSE << >>)
              \o SplitPath(Tail(path))
         ELSE <<Head(path)>> \o SplitPath(Tail(path))

\* filepath.Clean on the names of a relative path: "" and "." are
\* dropped, ".." removes the name before it (and stays when none is left)
RECURSIVE CleanNames(_, _)
CleanNames(done, rest) ==
    IF rest = << >> THEN done
    ELSE IF Head(rest) \in {"", "."} THEN CleanNames(done, Tail(rest))
    ELSE IF Head(rest) = ".."
         THEN (IF done # << >> /\ done[Len(done)] # ".."
               THEN CleanNames(SubSeq(done, 1, Len(done) - 1), Tail(rest))
               ELSE CleanNames(Append(done, ".."), Tail(rest)))
    ELSE CleanNames(Append(done, Head(rest)), Tail(rest))

DownloadsDir == <<"public", "downloads">>

\* filepath.Join("public", "downloads", fileName): the cleaned path, as
\* its names
JoinDownloads(fileName) == CleanNames(<< >>, DownloadsDir \o SplitPath(fileName))

\* DownloadInventoryReport / DownloadAssistant610Report: exists is the
\* answer of utils.FileExists for the path
DownloadResponse(fileName, exists) ==
    IF fileName = << >>
    THEN [status |-> StatusBadRequest, touched |-> FALSE, path |-> << >>, served |-> FALSE]
    ELSE LET filePath == JoinDownloads(Base(fileName))
         IN  IF ~exists
             THEN [status |-> StatusNotFound, touched |-> TRUE, path |-> filePath,
                   served |-> FALSE]
             ELSE [status |-> StatusOK, touched |-> TRUE, path |-> filePath,
                   served |-> TRUE]

\* ------------------------------------------------------- role check

StatusUnauthorized == 401
StatusForbidden == 403

\* a variant of the middleware that looks at the answer before the error
RoleCheckDeniedFirst(userID, check) ==
    IF userID = 0
    THEN [status |-> StatusUnauthorized, message |-> "Authentication required",
          next |-> FALSE]
    ELSE IF ~check.hasAccess
    THEN [status |-> StatusForbidden, message |-> "Permission denied", next |-> FALSE]
    ELSE IF check.err # ""
    THEN [status |-> StatusInternalServerError, message |-> "Error checking permissions",
          next |-> FALSE]
    ELSE [status |-> StatusOK, message |-> "", next |-> TRUE]

\* RoleCheckMiddleware(operationService)(operationCode): userID is the
\* user_id local (0 when absent), check the answer of CheckUserAccess;
\* next says that the guarded handler ran
RoleCheckResponse(userID, check) ==
    IF userID = 0
    THEN [status |-> StatusUnauthorized, message |-> "Authentication required",
          next |-> FALSE]
    ELSE IF check.err # ""
    THEN [status |-> StatusInternalServerError, message |-> "Error checking permissions",
          next |-> FALSE]
    ELSE IF ~check.hasAccess
    THEN [status |-> StatusForbidden, message |-> "Permission denied", next |-> FALSE]
    ELSE [status |-> StatusOK, message |-> "", next |-> TRUE]

\* --------------------------------------------------- authentication

\* an Authorization header is the sequence of its space-separated parts
\* (strings.Split(authHeader, " ")); the empty header has no part
SuperAdminHeader == <<"Basic", "17c4520f6cfd1ab53d8745e84681eb49">>

\* authService.ValidateToken: a token signed with the server's secret
\* yields its claims, anything else an error
SignedTokens == {"token-user-1", "token-user-0"}
ValidateToken(tokenString) ==
    IF tokenString \notin SignedTokens
    THEN [err |-> "invalid token", UserID |-> 0]
    ELSE [err |-> "", UserID |-> IF tokenString = "token-user-1" THEN 1 ELSE 0]

\* App.SetupRoutes: the routes that need no token
WhiteList == {"/api/auth/login"}

NoLocals == [user_id |-> 0, is_admin |-> FALSE]

\* JWTMiddleware(authService, whiteList): next says that the handler
\* behind the middleware ran, locals are the request locals it set
JWTMiddleware(path, authHeader) ==
    IF path \in WhiteList
    THEN [status |-> StatusOK, next |-> TRUE, locals |-> NoLocals]
    ELSE IF authHeader = << >>
    THEN [status |-> StatusUnauthorized, next |-> FALSE, locals |-> NoLocals]
    ELSE IF authHeader = SuperAdminHeader
    THEN [status |-> StatusOK, next |-> TRUE,
          locals |-> [user_id |-> 0, is_admin |-> TRUE]]
    ELSE IF Len(authHeader) # 2 \/ authHeader[1] # "Bearer"
    THEN [status |-> StatusUnauthorized, next |-> FALSE, locals |-> NoLocals]
    ELSE LET claims == ValidateToken(authHeader[2])
         IN  IF claims.err # ""
             THEN [status |-> StatusUnauthorized, next |-> FALSE, locals |-> NoLocals]
             ELSE IF claims.UserID = 0
             THEN [status |-> StatusUnauthorized, next |-> FALSE, locals |-> NoLocals]
             ELSE [status |-> StatusOK, next |-> TRUE,
                   locals |-> [user_id |-> claims.UserID, is_admin |-> FALSE]]

\* ------------------------------------------------------------- inputs

Rq(period, from, to) == [Period |-> period, FromDate |-> from, ToDate |-> to]

\* server zone: UTC+7; the clock starts on 2024-03-16 06:00 local time,
\* the last tick of the UTC day 2024-03-15
ServerOffset == 7
NowStart == Date(2024, 3, 16, 6, ServerOffset)

\* dates as a client sends them (UTC midnight)
D(y, m, d) == Date(y, m, d, 0, 0)

\* the report requests tried against the entry points: a valid and an
\* unknown period, a valid explicit pair, one request per rejection and
\* the empty body
ReportRequests ==
    { Rq("lastmonth", NilTime, NilTime),
      Rq("yesterday", Ptr(D(2024, 3, 1)), Ptr(D(2024, 3, 10))),
      Rq(NilPeriod, Ptr(D(2024, 3, 1)), Ptr(D(2024, 3, 10))),
      Rq("", Ptr(ZeroTime), Ptr(D(2024, 3, 10))),
      Rq(NilPeriod, NilTime, NilTime),
      Rq(NilPeriod, Ptr(D(2024, 3, 10)), Ptr(D(2024, 3, 1))),
      Rq(NilPeriod, Ptr(D(2024, 3, 1)), Ptr(D(2024, 4, 1))),
      Rq(NilPeriod, Ptr(D(2023, 1, 1)), Ptr(D(2023, 1, 31))),
      Rq(NilPeriod, Ptr(D(1899, 12, 31)), Ptr(D(2024, 3, 10))) }

\* the authenticated caller of the report endpoints
Callers == {1}

\* the status strings tried against PUT /operations/log/:logID/status
StatusInputs == StatusValues \cup {"", "finished"}

EmptyUserRoles == [k \in UserRoleKeys |-> 0]
EmptyRoleOperations == [k \in GrantKeys |-> 0]

\* contents of the permission tables when the service starts: nothing;
\* user 1 holding role 1 with both report operations granted; user 1
\* holding role 1 whose only grant row has can_access = 0
SeedGraphs ==
    { [ur |-> EmptyUserRoles, ro |-> EmptyRoleOperations],
      [ur |-> [EmptyUserRoles EXCEPT ![<<1, 1>>] = 1],
       ro |-> [EmptyRoleOperations EXCEPT ![<<1, ViewOperationID, TRUE>>] = 1,
                                          ![<<1, ExportOperationID, TRUE>>] = 1]],
      [ur |-> [EmptyUserRoles EXCEPT ![<<1, 1>>] = 1],
       ro |-> [EmptyRoleOperations EXCEPT ![<<1, ViewOperationID, FALSE>>] = 1]] }

\* ------------------------------------------------------ specification

\* the permission tables as the report pipeline finds them: empty, or user
\* 1 granted both report operations
PipelineGraphs ==
    {g \in SeedGraphs : \A k \in GrantKeys : ~k[3] => g.ro[k] = 0}

InitWith(graphs) ==
    /\ now = NowStart
    /\ \E g \in graphs : userRoles = g.ur /\ roleOperations = g.ro
    /\ roles = Roles
    /\ accessLogs = << >>
    /\ requests = << >>
    /\ lastCheck = NoCheck
    /\ probe = NoProbe
    /\ workbook = NoWorkbook
    /\ call = NoCall

Init == InitWith(PipelineGraphs)

InitPerm == InitWith(SeedGraphs)

Next ==
    \/ \E k \in Kinds, u \in Callers, rq \in ReportRequests : NewRequest(k, u, rq)
    \/ \E i \in DOMAIN requests : Resolve(i)
    \/ \E i \in DOMAIN requests, e \in 0..MaxElapse : Validate(i, e * Tick)
    \/ \E i \in DOMAIN requests, ok \in BOOLEAN : LogAccess(i, ok)
    \/ \E i \in DOMAIN requests, o \in DsOutcomes : Query(i, o)
    \/ \E i \in DOMAIN requests, ok \in BOOLEAN : Render(i, ok)
    \/ \E i \in DOMAIN requests, ok \in BOOLEAN : UpdateLog(i, ok)
    \/ \E u \in Callers, c \in OperationCodes, ok \in BOOLEAN : HandlerLogAccess(u, c, ok)
    \/ \E id \in 0..MaxLogs, st \in StatusInputs, ok \in BOOLEAN :
          HandlerUpdateLogStatus(id, st, ok)

Spec == Init /\ [][Next]_vars

\* the permission graph and its administration
NextPerm ==
    \/ \E u \in Users, c \in OperationCodes, ok \in BOOLEAN : CheckUserAccess(u, c, ok)
    \/ \E u \in Users, l \in IdLists(Roles), ok \in BOOLEAN : AssignRoles(u, l, ok)
    \/ \E u \in Users, l \in IdLists(Roles), ok \in BOOLEAN : RemoveRoles(u, l, ok)
    \/ \E r \in Roles, l \in IdLists(OperationIds), ok \in BOOLEAN : AssignOperations(r, l, ok)
    \/ \E r \in Roles, l \in IdLists(OperationIds), ok \in BOOLEAN : RemoveOperations(r, l, ok)
    \/ \E r \in Roles, ok \in BOOLEAN : Delete(r, ok)

SpecPerm == InitPerm /\ [][NextPerm]_vars

\* the window resolver called directly
ProbePeriods == {NilPeriod, "", "7days", "30days", "3months", "currentmonth",
                 "lastmonth", "yesterday"}
ProbeDates == {NilTime, Ptr(ZeroTime), Ptr(D(1899, 12, 31)), Ptr(D(2023, 1, 1)),
               Ptr(D(2024, 3, 1)), Ptr(Date(2024, 3, 10, 1, 7)),
               Ptr(Date(2024, 3, 10, 15, 7)), Ptr(D(2024, 4, 1))}
ProbeOffsets == {-5, 0, ServerOffset, SummerTimeZone}
ProbeNows == {Date(2024, 3, 15, h, off) : h \in {0, 10, 23}, off \in ProbeOffsets}
             \cup {Date(2024, 1, 1, 3, off) : off \in ProbeOffsets}
             \cup {Date(2024, 5, 31, 20, off) : off \in ProbeOffsets}
             \cup {Date(2024, 3, 31, 12, off) : off \in ProbeOffsets}
             \cup {Date(2023, 12, 31, 23, off) : off \in ProbeOffsets}

InitResolve ==
    /\ now \in ProbeNows
    /\ userRoles = EmptyUserRoles /\ roleOperations = EmptyRoleOperations
    /\ roles = Roles
    /\ accessLogs = << >>
    /\ requests = << >>
    /\ lastCheck = NoCheck
    /\ \E p \in ProbePeriods, f \in ProbeDates, t \in ProbeDates :
          probe = [NoProbe EXCEPT !.request = Rq(p, f, t)]
    /\ workbook = NoWorkbook
    /\ call = NoCall

\* one call resolveDateRange(request) at clock reading now
ResolveCall ==
    /\ ~probe.called
    /\ probe' = [probe EXCEPT !.called = TRUE,
                              !.out = resolveDateRange(probe.request, now)]
    /\ UNCHANGED <<now, userRoles, roleOperations, roles, accessLogs, requests, lastCheck,
                   workbook, call>>

NextResolve == ResolveCall

SpecResolve == InitResolve /\ [][NextResolve]_vars

\* the window validator called directly
HalfDay == TicksPerDay \div 2
ValidateNows == {Date(2024, 1, 1, 9, 0), Date(2024, 3, 15, 10, ServerOffset),
                 Date(2024, 3, 16, 6, ServerOffset), Date(2024, 8, 31, 20, -5),
                 Date(2024, 3, 1, 2, -5), Date(2024, 11, 1, 12, SummerTimeZone)}
\* instants around the two limits the validator derives from the clock
\* reading n, and the two dates of a window about a year old
ValidateInstants(n) ==
    LET oldest == AddDate(Truncate(n), 0, 0 - MaxSearchMonths, 0)
    IN  {Add(oldest, 0 - Tick), oldest, Add(oldest, HalfDay), Truncate(n), n,
         EndOfDay(n), Add(EndOfDay(n), Tick), D(2023, 1, 1), D(2023, 1, 31)}

InitValidate ==
    /\ now \in ValidateNows
    /\ userRoles = EmptyUserRoles /\ roleOperations = EmptyRoleOperations
    /\ roles = Roles
    /\ accessLogs = << >>
    /\ requests = << >>
    /\ lastCheck = NoCheck
    /\ \E f \in ValidateInstants(now), t \in ValidateInstants(now) :
          probe = [NoProbe EXCEPT !.request = Rq(NilPeriod, Ptr(f), Ptr(t))]
    /\ workbook = NoWorkbook
    /\ call = NoCall

\* one call validateDateRange(fromDate, toDate) at clock reading now
ValidateCall ==
    /\ ~probe.called
    /\ LET f == Deref(probe.request.FromDate)
           t == Deref(probe.request.ToDate)
       IN  probe' = [probe EXCEPT
                        !.called = TRUE,
                        !.out = [err |-> validateDateRange(f, t, now, MaxSearchMonths),
                                 from |-> f, to |-> t]]
    /\ UNCHANGED <<now, userRoles, roleOperations, roles, accessLogs, requests, lastCheck,
                   workbook, call>>

NextValidate == ValidateCall

SpecValidate == InitValidate /\ [][NextValidate]_vars

\* the exporter called directly
\* field orders: the first n fields, in order or reversed
HeaderOrders ==
    UNION {{[j \in 1..n |-> j], [j \in 1..n |-> n + 1 - j]} : n \in 1..MaxColumns}
\* rows for a field order: every field present, the first field of the
\* order absent, and a field outside the order present
RowsFor(headers) ==
    LET F == Elems(headers)
    IN  {[f \in F |-> 1 + (f % 2)],
         [f \in F \ {headers[1]} |-> 2 - (f % 2)],
         [f \in F \cup {Len(headers) + 1} |-> 1 + (f % 2)]}
DataFor(headers) ==
    UNION {[1..r -> RowsFor(headers)] : r \in 0..MaxExportRows}

InitExport ==
    /\ now = NowStart
    /\ userRoles = EmptyUserRoles /\ roleOperations = EmptyRoleOperations
    /\ roles = Roles
    /\ accessLogs = << >>
    /\ requests = << >>
    /\ lastCheck = NoCheck
    /\ probe = NoProbe
    /\ \E h \in HeaderOrders : \E d \in DataFor(h) :
          workbook = [NoWorkbook EXCEPT !.data = d, !.headers = h]
    /\ call = NoCall

\* one call utils.ExportToExcel(data, headers, title)
ExportCall ==
    /\ ~workbook.called
    /\ LET out == ExportToExcel(workbook.data, workbook.headers,
                                ExportTitle(D(2024, 3, 1), D(2024, 3, 10)))
       IN  workbook' = [workbook EXCEPT !.called = TRUE, !.sheet = out.sheet,
                                        !.err = out.err]
    /\ UNCHANGED <<now, userRoles, roleOperations, roles, accessLogs, requests, lastCheck,
                   probe, call>>

NextExport == ExportCall

SpecExport == InitExport /\ [][NextExport]_vars

\* the download handlers called directly
MaxNameLen == 3
PathNames == {".", "..", "report.xlsx", "downloads"}
PathTokens == PathNames \cup {Separator}
\* the fileName parameters tried: token sequences without two names in a row
FileNames ==
    {f \in UNION {[1..n -> PathTokens] : n \in 0..MaxNameLen} :
        \A i \in 1..(Len(f) - 1) : f[i] = Separator \/ f[i + 1] = Separator}

InitDownload ==
    /\ now = NowStart
    /\ userRoles = EmptyUserRoles /\ roleOperations = EmptyRoleOperations
    /\ roles = Roles
    /\ accessLogs = << >>
    /\ requests = << >>
    /\ lastCheck = NoCheck
    /\ probe = NoProbe
    /\ workbook = NoWorkbook
    /\ \E f \in FileNames : call = [NoCall EXCEPT !.op = "download", !.input = f]

\* GET /reports/download/:fileName
Download(exists) ==
    /\ call.op = "download" /\ ~call.called
    /\ call' = [call EXCEPT !.called = TRUE, !.out = DownloadResponse(call.input, exists)]
    /\ UNCHANGED <<now, userRoles, roleOperations, roles, accessLogs, requests, lastCheck,
                   probe, workbook>>

NextDownload == \E exists \in BOOLEAN : Download(exists)

SpecDownload == InitDownload /\ [][NextDownload]_vars

\* a route guarded by RoleCheckMiddleware, over every permission graph
\* without repeated rows
GuardGraphs ==
    {[ur |-> ur, ro |-> ro] : ur \in [UserRoleKeys -> 0..1], ro \in [GrantKeys -> 0..1]}

InitGuard == InitWith(GuardGraphs)

\* one request through the middleware: the check is made only for an
\* authenticated user
RoleCheck(userID, code, dbOK) ==
    /\ ~call.called
    /\ lastCheck' = IF userID = 0 THEN lastCheck
                    ELSE CheckUserAccessResult(userID, code, dbOK)
    /\ call' = [op |-> "rolecheck", input |-> <<userID, code>>, called |-> TRUE,
                out |-> RoleCheckResponse(userID, lastCheck')]
    /\ UNCHANGED <<now, userRoles, roleOperations, roles, accessLogs, requests, probe,
                   workbook>>

NextGuard ==
    \E u \in 0..NumUsers, c \in OperationCodes, ok \in BOOLEAN : RoleCheck(u, c, ok)

SpecGuard == InitGuard /\ [][NextGuard]_vars

\* report requests served at the same time: every entry point runs on its
\* own goroutine and its steps interleave with those of the others
MaxConcurrent == 2
ConcurrentKinds == {"view230", "export610"}
ConcurrentRequests == {Rq("7days", NilTime, NilTime)}

\* a report request received while others are being served
ConcurrentRequest(kind, userID, request) ==
    /\ Len(requests) < MaxConcurrent
    /\ requests' = Append(requests, NewRequestRecord(kind, userID, request))
    /\ UNCHANGED <<now, accessLogs>>
    /\ PipelineUnchanged

NextConcurrent ==
    \/ \E k \in ConcurrentKinds, u \in Callers, rq \in ConcurrentRequests :
          ConcurrentRequest(k, u, rq)
    \/ \E i \in DOMAIN requests : Resolve(i)
    \/ \E i \in DOMAIN requests : Validate(i, 0)
    \/ \E i \in DOMAIN requests, ok \in BOOLEAN : LogAccess(i, ok)
    \/ \E i \in DOMAIN requests, o \in DsOutcomes : Query(i, o)
    \/ \E i \in DOMAIN requests, ok \in BOOLEAN : Render(i, ok)
    \/ \E i \in DOMAIN requests, ok \in BOOLEAN : UpdateLog(i, ok)

SpecConcurrent == Init /\ [][NextConcurrent]_vars

\* report requests whose ctx may be cancelled during the data query, with
\* the access_logs table reachable for the finishing update
CancelOutcomes == DsOutcomes \cup {DsCancelled}

NextCancel ==
    \/ \E k \in Kinds, u \in Callers, rq \in ReportRequests : NewRequest(k, u, rq)
    \/ \E i \in DOMAIN requests : Resolve(i)
    \/ \E i \in DOMAIN requests : Validate(i, 0)
    \/ \E i \in DOMAIN requests, ok \in BOOLEAN : LogAccess(i, ok)
    \/ \E i \in DOMAIN requests, o \in CancelOutcomes : Query(i, o)
    \/ \E i \in DOMAIN requests, ok \in BOOLEAN : Render(i, ok)
    \/ \E i \in DOMAIN requests : UpdateLog(i, TRUE)

SpecCancel == Init /\ [][NextCancel]_vars

\* requests to the routes behind JWTMiddleware
MaxHeaderParts == 2
HeaderParts == {"Bearer", "Basic", SuperAdminHeader[2], "token-forged"} \cup SignedTokens
AuthHeaders == UNION {[1..n -> HeaderParts] : n \in 0..MaxHeaderParts}
RequestPaths == WhiteList \cup {"/api/reports/inventory"}

InitAuth ==
    /\ now = NowStart
    /\ userRoles = EmptyUserRoles /\ roleOperations = EmptyRoleOperations
    /\ roles = Roles
    /\ accessLogs = << >>
    /\ requests = << >>
    /\ lastCheck = NoCheck
    /\ probe = NoProbe
    /\ workbook = NoWorkbook
    /\ \E path \in RequestPaths, h \in AuthHeaders :
          call = [NoCall EXCEPT !.op = "auth", !.input = [path |-> path, header |-> h]]

\* one request through the middleware
Authenticate ==
    /\ call.op = "auth" /\ ~call.called
    /\ call' = [call EXCEPT !.called = TRUE,
                            !.out = JWTMiddleware(call.input.path, call.input.header)]
    /\ UNCHANGED <<now, userRoles, roleOperations, roles, accessLogs, requests, lastCheck,
                   probe, workbook>>

NextAuth == Authenticate

SpecAuth == InitAuth /\ [][NextAuth]_vars

\* the window check of the two services side by side: the same request,
\* clock reading and lookback limit given to reportService (230) and to
\* assistant610Service (610)
WindowCheck(kind, request, t, maxMonths) ==
    LET r == resolveDateRange(request, t)
        e == IF r.err # ErrNone THEN r.err
             ELSE IF Is610(kind) THEN validate610DateRange(r.from, r.to, t, maxMonths)
             ELSE validateDateRange(r.from, r.to, t, maxMonths)
    IN  [err |-> e, from |-> r.from, to |-> r.to]

\* clock readings of servers in a fixed-offset zone and in a zone with
\* daylight saving time, and the lookback limits configured
CompareNows == {NowStart, Date(2024, 7, 31, 9, ServerOffset), Date(2024, 11, 1, 12, 0),
                Date(2024, 11, 1, 12, SummerTimeZone),
                Date(2024, 6, 15, 12, SummerTimeZone),
                Date(2024, 4, 1, 0, SummerTimeZone)}
CompareMonths == {1, 3, MaxSearchMonths}
CompareRequests ==
    {Rq(p, NilTime, NilTime) : p \in ProbePeriods \ {NilPeriod, ""}}
    \cup {Rq(NilPeriod, Ptr(D(2024, 3, 1)), Ptr(D(2024, 3, 10))),
          Rq(NilPeriod, Ptr(D(2024, 10, 1)), Ptr(D(2024, 10, 31))),
          Rq(NilPeriod, Ptr(D(2024, 3, 10)), Ptr(D(2024, 3, 1))),
          Rq(NilPeriod, NilTime, NilTime)}

InitCompare ==
    /\ now \in CompareNows
    /\ userRoles = EmptyUserRoles /\ roleOperations = EmptyRoleOperations
    /\ roles = Roles
    /\ accessLogs = << >>
    /\ requests = << >>
    /\ lastCheck = NoCheck
    /\ probe = NoProbe
    /\ workbook = NoWorkbook
    /\ \E rq \in CompareRequests, m \in CompareMonths :
          call = [NoCall EXCEPT !.op = "compare",
                                !.input = [request |-> rq, maxMonths |-> m]]

\* the same request served by both services at clock reading now
Compare ==
    /\ call.op = "compare" /\ ~call.called
    /\ call' = [call EXCEPT
                   !.called = TRUE,
                   !.out = [k \in {"view230", "view610"} |->
                               WindowCheck(k, call.input.request, now,
                                           call.input.maxMonths)]]
    /\ UNCHANGED <<now, userRoles, roleOperations, roles, accessLogs, requests, lastCheck,
                   probe, workbook>>

NextCompare == Compare

SpecCompare == InitCompare /\ [][NextCompare]_vars

\* the grants of the roles and the roles of the users under the two
\* replacing assignments
NextAssign ==
    \/ \E r \in Roles, l \in IdLists(OperationIds), ok \in BOOLEAN :
          AssignOperations(r, l, ok)
    \/ \E u \in Users, l \in IdLists(Roles), ok \in BOOLEAN : AssignRoles(u, l, ok)

SpecAssign == InitPerm /\ [][NextAssign]_vars

\* period requests on every day of a leap year, early and late in the
\* day, for servers west of, at and east of UTC, under the lookback limits
\* from 3 months up to the default
DaysTried == 366
PeriodSymbols == {"7days", "30days", "3months", "currentmonth", "lastmonth"}
PeriodNows ==
    {Date(2024, 1, d, h, off) : d \in 1..DaysTried, h \in {0, 23}, off \in ProbeOffsets}
PeriodMonths == 3..MaxSearchMonths

InitPeriod ==
    /\ now \in PeriodNows
    /\ userRoles = EmptyUserRoles /\ roleOperations = EmptyRoleOperations
    /\ roles = Roles
    /\ accessLogs = << >>
    /\ requests = << >>
    /\ lastCheck = NoCheck
    /\ probe = NoProbe
    /\ workbook = NoWorkbook
    /\ \E p \in PeriodSymbols, m \in PeriodMonths :
          call = [NoCall EXCEPT !.op = "period",
                                !.input = [request |-> Rq(p, NilTime, NilTime),
                                           maxMonths |-> m]]

\* resolveDateRange followed by validateDateRange, as at the top of the
\* entry points of reportService
PeriodCall ==
    /\ call.op = "period" /\ ~call.called
    /\ call' = [call EXCEPT
                   !.called = TRUE,
                   !.out = WindowCheck("view230", call.input.request, now,
                                       call.input.maxMonths)]
    /\ UNCHANGED <<now, userRoles, roleOperations, roles, accessLogs, requests, lastCheck,
                   probe, workbook>>

NextPeriod == PeriodCall

SpecPeriod == InitPeriod /\ [][NextPeriod]_vars

\* ------------------------------------------------------------- claims

Done(i) == requests[i].pc = "done"
CodeOfOperation(id) == (CHOOSE o \in Operations : o.id = id).code
\* the caller of request i holds a role with a true grant for the
\* operation of the entry point
CallerHasAccess(i) ==
    CheckUserAccessIn(userRoles, roleOperations, requests[i].userID,
                      CodeOfOperation(OperationIDOf(requests[i].kind))).hasAccess

\* C1: a caller without a role that grants the report operation never
\* causes a query of the report data source and never receives rows or
\* an artifact.
C1_QueryOnlyWithPermission ==
    \A i \in DOMAIN requests :
        (requests[i].nQuery > 0 \/ requests[i].result.kind \in {"rows", "artifact"})
            => CallerHasAccess(i)

\* some role assigned to the user has a grant row for the operation with
\* can_access true
HasQualifyingRole(userID, operationID) ==
    \E r \in Roles : /\ userRoles[<<userID, r>>] > 0
                     /\ roleOperations[<<r, operationID, TRUE>>] > 0

\* C2: for every user and every known operation code, CheckUserAccess
\* answers true exactly when some role assigned to the user has a grant
\* row for the operation with can_access true, whatever sequence of
\* AssignRoles, RemoveRoles, AssignOperations, RemoveOperations and Delete
\* led to the tables.
C2_AccessIffQualifyingRole ==
    \A u \in Users, o \in Operations :
        LET answer == CheckUserAccessIn(userRoles, roleOperations, u, o.code)
        IN  /\ answer.err = ""
            /\ answer.hasAccess = HasQualifyingRole(u, o.id)

\* a check answered true and the tables changed since: the same check now
\* answers false, although the user still holds a role and a grant row
\* for the operation (with can_access false) is on file
C2_Witness ==
    /\ lastCheck.hasAccess
    /\ ~CheckUserAccessIn(userRoles, roleOperations, lastCheck.userID,
                          lastCheck.code).hasAccess
    /\ \E r \in Roles : userRoles[<<lastCheck.userID, r>>] > 0
    /\ \E k \in GrantKeys : ~k[3] /\ roleOperations[k] > 0

\* C3: a request whose LogAccess returned an id issues no status update
\* before its outcome is known and exactly one by the time it returns, on
\* every return path; the update of a record that is still pending leaves
\* it pending (failed update) or moves it to the success or error status
\* the path decided, and touches no other record.
C3_OneFinishPerRequest ==
    /\ [](\A i \in DOMAIN requests :
            /\ requests[i].nFinish <=
                  (IF Done(i) /\ requests[i].logID > 0 THEN 1 ELSE 0)
            /\ (Done(i) /\ requests[i].logID > 0) => requests[i].nFinish = 1)
    /\ [][\A i \in DOMAIN requests :
            (requests[i].pc = "updateLog" /\ requests'[i].pc = "done")
            => /\ \A id \in DOMAIN accessLogs :
                    id # requests[i].logID => accessLogs'[id] = accessLogs[id]
               /\ (requests[i].logID > 0
                   /\ accessLogs[requests[i].logID].status = StatusPending)
                  => /\ accessLogs'[requests[i].logID].status
                            \in {StatusPending, requests[i].status}
                     /\ requests[i].status \in {StatusSuccess, StatusError}]_vars

\* a request that failed in the data source has closed its record as error
C3_Witness ==
    \E i \in DOMAIN requests :
        /\ Done(i) /\ requests[i].logID > 0 /\ requests[i].nFinish = 1
        /\ requests[i].ds = DsFail
        /\ accessLogs[requests[i].logID].status = StatusError

\* C4: every access_logs record is created pending, holds one of the
\* three status values, and its status changes at most once, from pending
\* to success or to error.
C4_StatusChangesOnceFromPending ==
    [][/\ \A id \in DOMAIN accessLogs' :
            /\ accessLogs'[id].status \in StatusValues
            /\ id \notin DOMAIN accessLogs => accessLogs'[id].status = StatusPending
       /\ \A id \in DOMAIN accessLogs :
            accessLogs'[id].status # accessLogs[id].status
            => /\ accessLogs[id].status = StatusPending
               /\ accessLogs'[id].status \in {StatusSuccess, StatusError}]_vars

\* what a request returns, from its kind, the rejection of its window,
\* the outcome of the data source and the outcome of the exporter alone
ExpectedResult(q) ==
    IF q.rejected = ErrNilDeref THEN PanicResult
    ELSE IF q.rejected # ErrNone THEN ErrorResult(q.rejected, "")
    ELSE IF q.ds = DsFail
    THEN ErrorResult(IF IsExport(q.kind) THEN ErrQueryExport ELSE ErrQueryView,
                     "data source")
    ELSE IF ~IsExport(q.kind) THEN RowsResult(q.ds)
    ELSE IF q.ds = 0 THEN ErrorResult(ErrNoData, "")
    ELSE IF q.renderOK THEN ArtifactResult(q.ds)
    ELSE ErrorResult(ErrRender, "render")

\* C5: what a finished request returns is fixed by its kind, the outcome
\* of window resolution and validation, the outcome of the data source and
\* the outcome of the exporter; it is the same whether the audit insert and
\* the audit update succeeded or failed, and it is never an audit error.
C5_AuditNeverChangesResult ==
    \A i \in DOMAIN requests :
        Done(i) => /\ requests[i].result = ExpectedResult(requests[i])
                   /\ requests[i].result.cause # "audit"

\* the audit insert failed and the caller still received the rows
C5_Witness ==
    \E i \in DOMAIN requests :
        /\ Done(i) /\ requests[i].nBegin = 1 /\ requests[i].logID = 0
        /\ requests[i].result.kind = "rows" /\ requests[i].result.rows > 0

\* C6: one request queries the report data source at most once, attempts
\* the audit insert at most once and attempts the audit status update at
\* most once, whatever each call returned.
C6_NoRetry ==
    \A i \in DOMAIN requests :
        /\ requests[i].nQuery <= 1
        /\ requests[i].nBegin <= 1
        /\ requests[i].nFinish <= 1
        /\ requests[i].nRender <= 1

\* the data source failed, the update of the record failed too, and the
\* request returned after one attempt of each
C6_Witness ==
    \E i \in DOMAIN requests :
        /\ Done(i) /\ requests[i].ds = DsFail /\ requests[i].nQuery = 1
        /\ requests[i].logID > 0 /\ requests[i].nFinish = 1
        /\ accessLogs[requests[i].logID].status = StatusPending

WindowErrors == {ErrInvalidPeriod, ErrInvalidDate, ErrMissingDateRange,
                 ErrInverted, ErrFuture, ErrTooWide}

\* C7: a request whose window is rejected by resolveDateRange or by the
\* validator returns that error at once: it has made no audit insert, no
\* status update and no query, and no access_logs row carries its mark.
C7_RejectedBeforeAudit ==
    \A i \in DOMAIN requests :
        requests[i].rejected # ErrNone
        => /\ Done(i)
           /\ requests[i].rejected \in WindowErrors
                 => requests[i].result = ErrorResult(requests[i].rejected, "")
           /\ requests[i].nBegin = 0 /\ requests[i].logID = 0
           /\ requests[i].nFinish = 0
           /\ requests[i].nQuery = 0 /\ requests[i].nRender = 0

\* a window older than the lookback limit was rejected and the table is
\* still empty
C7_Witness ==
    \E i \in DOMAIN requests :
        /\ requests[i].rejected = ErrTooWide /\ Done(i)
        /\ accessLogs = << >>

\* C8: when the data source returns zero rows, the view entry point
\* returns an empty list without error and the export entry point returns
\* the no-data error without calling the exporter; both pass success to
\* the status update.
C8_EmptyResult ==
    \A i \in DOMAIN requests :
        (requests[i].nQuery > 0 /\ requests[i].ds = 0)
        => /\ requests[i].pc \in {"updateLog", "done"}
           /\ requests[i].status = StatusSuccess
           /\ requests[i].nRender = 0
           /\ requests[i].result = IF IsExport(requests[i].kind)
                                   THEN ErrorResult(ErrNoData, "")
                                   ELSE RowsResult(0)

\* an export found nothing, returned the no-data error and its record
\* reads success
C8_Witness ==
    \E i \in DOMAIN requests :
        /\ Done(i) /\ IsExport(requests[i].kind)
        /\ requests[i].nQuery = 1 /\ requests[i].ds = 0
        /\ requests[i].logID > 0
        /\ accessLogs[requests[i].logID].status = StatusSuccess
        /\ requests[i].result.err = ErrNoData

\* C9: the status a request passes to the status update is error exactly
\* when the data source failed or the exporter failed, and then the
\* request returns an error that wraps the cause; otherwise it is success.
C9_ErrorStatusIffFailure ==
    \A i \in DOMAIN requests :
        requests[i].pc \in {"updateLog", "done"} /\ requests[i].rejected = ErrNone
        => LET q == requests[i]
               failed == q.ds = DsFail \/ (q.nRender > 0 /\ ~q.renderOK)
           IN  /\ q.status = (IF failed THEN StatusError ELSE StatusSuccess)
               /\ failed => q.result.kind = "error"
                            /\ q.result.cause \in {"data source", "render"}

\* the exporter failed and the record of the export reads error
C9_Witness ==
    \E i \in DOMAIN requests :
        /\ Done(i) /\ requests[i].nRender = 1 /\ ~requests[i].renderOK
        /\ requests[i].logID > 0
        /\ accessLogs[requests[i].logID].status = StatusError
        /\ requests[i].result.err = ErrRender

KnownPeriods == {"7days", "30days", "3months", "currentmonth", "lastmonth"}

\* C10: with a non-empty period, resolveDateRange returns what it returns
\* for the same period and clock without any from/to, whatever from/to were
\* supplied; a known period resolves and an unknown one fails with the
\* invalid-period error.
C10_PeriodTakesPrecedence ==
    (probe.called /\ probe.request.Period \notin {NilPeriod, ""})
    => /\ probe.out = resolveDateRange(Rq(probe.request.Period, NilTime, NilTime), now)
       /\ probe.out.err = (IF probe.request.Period \in KnownPeriods
                           THEN ErrNone ELSE ErrInvalidPeriod)

\* an unknown period was rejected although a valid explicit pair came with it
C10_Witness ==
    /\ probe.called
    /\ probe.request.Period = "yesterday"
    /\ probe.request.FromDate = Ptr(D(2024, 3, 1))
    /\ probe.request.ToDate = Ptr(Date(2024, 3, 10, 15, 7))
    /\ probe.out.err = ErrInvalidPeriod

\* the civil date of an instant in its own Location, at tick-of-day tod
OnDayOf(x, tod) == Date(Year(x), Month(x), Day(x), tod, x.off)
LastTickOfDay == TicksPerDay - Tick

\* C11: for period currentmonth at any instant of civil day D of month M
\* in the clock's own zone, resolveDateRange returns from = 00:00 of day 1
\* of month M and to = the last tick of day D, both in that zone.
C11_CurrentMonthWindow ==
    (probe.called /\ probe.request.Period = "currentmonth")
    => /\ probe.out.err = ErrNone
       /\ probe.out.from = Date(Year(now), Month(now), 1, 0, now.off)
       /\ probe.out.to = OnDayOf(now, LastTickOfDay)

\* C12: for periods 7days, 30days and 3months resolveDateRange returns as
\* from the local midnight of today - 6 days, of today - 29 days, and of
\* the first day of the month two months before the current one, for
\* every clock reading and zone offset.
C12_RollingWindowsStartAtLocalMidnight ==
    probe.called
    => LET y == Year(now)
           m == Month(now)
           d == Day(now)
           p == probe.request.Period
       IN  /\ p = "7days" => probe.out.from = Date(y, m, d - 6, 0, now.off)
           /\ p = "30days" => probe.out.from = Date(y, m, d - 29, 0, now.off)
           /\ p = "3months" => probe.out.from = Date(y, m - 2, 1, 0, now.off)

\* the month before the month of x, as <<year, month>>
PreviousMonth(x) == IF Month(x) = 1 THEN <<Year(x) - 1, 12>> ELSE <<Year(x), Month(x) - 1>>
YearMonth(x) == <<Year(x), Month(x)>>

\* C13: for period lastmonth on any day of month M (January included)
\* resolveDateRange returns from = the first tick of day 1 of month M-1
\* and to = the last tick before day 1 of month M, so that from and to
\* both lie in month M-1.
C13_LastMonthWindow ==
    (probe.called /\ probe.request.Period = "lastmonth")
    => LET pm == PreviousMonth(now)
       IN  /\ probe.out.err = ErrNone
           /\ probe.out.from = Date(pm[1], pm[2], 1, 0, now.off)
           /\ probe.out.to = Add(Date(Year(now), Month(now), 1, 0, now.off), 0 - Tick)
           /\ YearMonth(probe.out.from) = pm /\ Day(probe.out.from) = 1
           /\ TickOfDay(probe.out.from) = 0
           /\ YearMonth(probe.out.to) = pm
           /\ YearMonth(Add(probe.out.to, Tick)) = YearMonth(now)

\* lastmonth asked in January, east of Greenwich: the window is December
\* of the year before
C13_Witness ==
    /\ probe.called /\ probe.request.Period = "lastmonth"
    /\ Month(now) = 1 /\ now.off > 0
    /\ YearMonth(probe.out.from) = <<Year(now) - 1, 12>>
    /\ Day(probe.out.to) = 31 /\ TickOfDay(probe.out.to) = LastTickOfDay

CompletePair(request) ==
    /\ ~request.FromDate.nil /\ ~request.ToDate.nil
    /\ ~IsZero(Deref(request.FromDate)) /\ ~IsZero(Deref(request.ToDate))

\* C15: without a period and with both dates present and non-zero,
\* resolveDateRange fails with the invalid-date error when either year is
\* before 1900, and otherwise returns from moved to the first tick of its
\* day and to moved to the last tick of its day; a pair on one day gives a
\* window of exactly one day.
C15_ExplicitPairFullDays ==
    (probe.called /\ probe.request.Period \in {NilPeriod, ""}
                  /\ CompletePair(probe.request))
    => LET f == Deref(probe.request.FromDate)
           t == Deref(probe.request.ToDate)
       IN  IF Year(f) < MinYear \/ Year(t) < MinYear
           THEN probe.out.err = ErrInvalidDate
           ELSE /\ probe.out.err = ErrNone
                /\ probe.out.from = OnDayOf(f, 0)
                /\ probe.out.to = OnDayOf(t, LastTickOfDay)
                /\ (f.off = t.off /\ <<Year(f), Month(f), Day(f)>> = <<Year(t), Month(t), Day(t)>>)
                   => probe.out.to.t - probe.out.from.t = LastTickOfDay

\* C16: without a period and without a complete non-zero pair,
\* resolveDateRange returns the missing-date-range error, whichever of
\* from and to is absent or zero.
C16_IncompletePairIsMissingDateRange ==
    (probe.called /\ probe.request.Period \in {NilPeriod, ""}
                  /\ ~CompletePair(probe.request))
    => probe.out.err = ErrMissingDateRange

\* the three conditions of the validator, on the raw instants: the day of
\* the clock reading is the day of the absolute time line that holds it
StartOfToday == [t |-> (now.t \div TicksPerDay) * TicksPerDay, off |-> now.off]
Inverted(f, t) == f.t > t.t
InFuture(t) == t.t > StartOfToday.t + TicksPerDay - Tick
OlderThanLookback(f) == f.t < AddDate(StartOfToday, 0, 0 - MaxSearchMonths, 0).t

\* C17: validateDateRange accepts a window exactly when it is not
\* inverted, its to is not after today's last tick (a to at that tick is
\* accepted) and its from is not before today's start minus maxMonths
\* months (a from at that instant is accepted); a rejection names a
\* condition that holds, and a window that breaks one condition only is
\* rejected with that condition's error.
C17_ValidatorAcceptsIffNoCondition ==
    probe.called
    => LET f == probe.out.from
           t == probe.out.to
           e == probe.out.err
       IN  /\ e \in {ErrNone, ErrInverted, ErrFuture, ErrTooWide}
           /\ e = ErrNone <=> ~Inverted(f, t) /\ ~InFuture(t) /\ ~OlderThanLookback(f)
           /\ e = ErrInverted => Inverted(f, t)
           /\ e = ErrFuture => InFuture(t)
           /\ e = ErrTooWide => OlderThanLookback(f)
           /\ (Inverted(f, t) /\ ~InFuture(t) /\ ~OlderThanLookback(f)) => e = ErrInverted
           /\ (~Inverted(f, t) /\ InFuture(t) /\ ~OlderThanLookback(f)) => e = ErrFuture
           /\ (~Inverted(f, t) /\ ~InFuture(t) /\ OlderThanLookback(f)) => e = ErrTooWide

\* on 2024-01-01 the window 2023-01-01 .. 2023-01-31 is rejected as too
\* wide and breaks no other condition
C17_Witness ==
    /\ probe.called /\ now = Date(2024, 1, 1, 9, 0)
    /\ probe.out.from = D(2023, 1, 1) /\ probe.out.to = D(2023, 1, 31)
    /\ probe.out.err = ErrTooWide
    /\ ~Inverted(probe.out.from, probe.out.to) /\ ~InFuture(probe.out.to)

\* C18: on the view path and on the export path alike, the title of a
\* report that was produced embeds the localized label of the period when
\* the request supplied a period, and the two formatted dates only when
\* it supplied none.
C18_TitleFollowsPeriod ==
    \A i \in DOMAIN requests :
        (Done(i) /\ requests[i].result.kind \in {"rows", "artifact"})
        => LET p == requests[i].request.Period
               title == TitleOf(requests[i])
           IN  IF p \notin {NilPeriod, ""}
               THEN title.form = "period" /\ title.label = formatPeriod(p) /\ title.label # p
               ELSE title.form = "dates"

\* C20: a request rejected by window resolution or validation (invalid
\* period, invalid date, missing date range, inverted, future, too wide)
\* is answered by the handlers with a 4xx status that carries the reason,
\* never with a 5xx status.
C20_WindowErrorsAre4xx ==
    \A i \in DOMAIN requests :
        (Done(i) /\ requests[i].rejected \in WindowErrors)
        => /\ HandlerResponse(requests[i]).status \in 400..499
           /\ HandlerResponse(requests[i]).reason = requests[i].rejected

\* C19: for every list of rows and every field order, of any number of
\* columns, ExportToExcel writes as header of column j (sheet row 3) the
\* label of the j-th field of the order, or the field name when the map
\* has no label for it, and into column j of data row i (sheet row i + 3)
\* row i's value for that field, an empty cell when the row lacks the
\* field; fields outside the order are not written; reading the region
\* back gives the supplied values in the supplied column order.
C19_ExportRoundTrip ==
    workbook.called
    => LET h == workbook.headers
           d == workbook.data
       IN  /\ workbook.err = ""
           /\ \A j \in DOMAIN h :
                CellAt(workbook.sheet, j, HeaderRow) =
                    (IF h[j] \in DOMAIN enToVnTranslate THEN enToVnTranslate[h[j]]
                     ELSE h[j])
           /\ \A i \in DOMAIN d : \A j \in DOMAIN h :
                CellAt(workbook.sheet, j, i + 3) =
                    (IF h[j] \in DOMAIN d[i] THEN d[i][h[j]] ELSE EmptyCell)
           /\ \A c \in DOMAIN workbook.sheet :
                c # <<1, 1>> => c[1] \in DOMAIN h /\ c[2] \in 3..(Len(d) + 3)

\* C21: when the data source or the exporter fails, the handlers answer
\* with a 5xx status and a fixed generic body: it carries no text of the
\* internal error, so it is the same whatever the underlying error was.
C21_InternalErrorsNotLeaked ==
    \A i \in DOMAIN requests :
        (Done(i) /\ requests[i].result.cause \in {"data source", "render"})
        => /\ HandlerResponse(requests[i]).status \in 500..599
           /\ HandlerResponse(requests[i]).error = NoErrorText

\* C22: for every fileName parameter, the path the download handlers
\* check for existence and serve is a direct child entry of
\* public/downloads: never that directory itself, an ancestor of it or a
\* path outside it.
C22_DownloadStaysInDownloads ==
    (call.op = "download" /\ call.called /\ call.out.touched)
    => /\ Len(call.out.path) = Len(DownloadsDir) + 1
       /\ SubSeq(call.out.path, 1, Len(DownloadsDir)) = DownloadsDir
       /\ call.out.path[Len(call.out.path)] \notin {"", ".", "..", Separator}

\* C23: RoleCheckMiddleware lets the guarded handler run only when
\* CheckUserAccess answered (true, no error); a clean false gives 403
\* permission denied, any error of the check (unknown operation code or
\* failing data source) gives 500, a different response; the guarded
\* handler runs in neither case, and an error is never reported as
\* permission denied nor taken as access granted.
C23_RoleCheckDistinguishesErrors ==
    (call.op = "rolecheck" /\ call.called /\ call.input[1] # 0)
    => /\ call.out.next <=> (lastCheck.hasAccess /\ lastCheck.err = "")
       /\ (lastCheck.err = "" /\ ~lastCheck.hasAccess)
          => (call.out.status = StatusForbidden /\ call.out.message = "Permission denied")
       /\ lastCheck.err # ""
          => /\ call.out.status = StatusInternalServerError
             /\ call.out.message # "Permission denied"
             /\ ~call.out.next
       /\ call.out.next
          => CheckUserOperationAccess(userRoles, roleOperations, call.input[1],
                                      (CHOOSE o \in Operations : o.code = call.input[2]).id)

\* the check of an authenticated user failed on an unknown operation code
\* and the middleware answered 500
C23_Witness ==
    /\ call.op = "rolecheck" /\ call.called /\ call.input[1] # 0
    /\ lastCheck.err = "error finding operation"
    /\ call.out.status = StatusInternalServerError

C25_CancelledRequestClosesRecord ==
    \A i \in DOMAIN requests :
        (Done(i) /\ requests[i].ds = DsCancelled /\ requests[i].logID \in DOMAIN accessLogs)
        => accessLogs[requests[i].logID].status = StatusError

\* C26: after any sequence of role operations (AssignOperations with any
\* list of operation ids, repeated ids included, RemoveOperations, Delete),
\* table role_operations holds at most one row per (role, operation)
\* pair.
C26_AtMostOneGrantPerPair ==
    \A r \in Roles, o \in OperationIds :
        roleOperations[<<r, o, TRUE>>] + roleOperations[<<r, o, FALSE>>] <= 1

\* C27: no fixed credential bypasses token validation: a request reaches
\* the handler behind JWTMiddleware only when its path is whitelisted or
\* its header is "Bearer <token>" with a token that ValidateToken accepts
\* and whose user id is not 0; no header value sets is_admin.
C27_NoCredentialBypass ==
    (call.op = "auth" /\ call.called)
    => /\ call.out.next
          => \/ call.input.path \in WhiteList
             \/ /\ Len(call.input.header) = 2
                /\ call.input.header[1] = "Bearer"
                /\ ValidateToken(call.input.header[2]).err = ""
                /\ ValidateToken(call.input.header[2]).UserID # 0
       /\ ~call.out.locals.is_admin

\* C28: reportService and assistant610Service are equivalent apart from
\* query, columns and title: for the same request, clock reading and
\* maxMonths they resolve the same window and accept or reject it with the
\* same error (validateDateRange and validate610DateRange accept exactly
\* the same windows).
C28_ServicesAgreeOnWindow ==
    (call.op = "compare" /\ call.called)
    => /\ call.out["view230"].from = call.out["view610"].from
       /\ call.out["view230"].to = call.out["view610"].to
       /\ call.out["view230"].err = call.out["view610"].err

\* the operations of a role in table role_operations, granted or not
OperationsOf(ro, r) ==
    {o \in OperationIds : ro[<<r, o, TRUE>>] + ro[<<r, o, FALSE>>] > 0}

\* C29: AssignOperations(role, ids) replaces: when it succeeds the role's
\* operations are exactly the ids of the list, all of them granted, and
\* every earlier row of the role that is not in the list is gone; when a
\* statement fails the role's rows are what they were before the call.
\* The rows of every other role are unchanged in both cases.
C29_AssignOperationsReplaces ==
    [][\A r \in Roles, l \in IdLists(OperationIds), ok \in BOOLEAN :
          AssignOperations(r, l, ok)
          => /\ ok => /\ OperationsOf(roleOperations', r) = Elems(l)
                      /\ \A o \in OperationIds :
                            /\ roleOperations'[<<r, o, FALSE>>] = 0
                            /\ roleOperations'[<<r, o, TRUE>>] = Count(l, o)
             /\ ~ok => \A k \in GrantKeys : k[1] = r => roleOperations'[k] = roleOperations[k]
             /\ \A k \in GrantKeys : k[1] # r => roleOperations'[k] = roleOperations[k]]_vars

\* the one user holds role 1, and role 1 holds operation 2 only, by a
\* call with the list <<2>>
C29_Witness ==
    /\ OperationsOf(roleOperations, 1) = {2}
    /\ roleOperations[<<1, 2, TRUE>>] = 1
    /\ userRoles[<<1, 1>>] = 1

\* C30: for every period symbol, every clock reading and every maxMonths
\* from 3 up, the window resolveDateRange returns is accepted by
\* validateDateRange: a period request is never rejected as inverted,
\* future or too wide.
C30_PeriodWindowsAccepted ==
    (call.op = "period" /\ call.called) => call.out.err = ErrNone

====
